---- MODULE Spec2Model ----
(***************************************************************************)
(* The cursor-based RingStore of web-serial-plotter: fixed-capacity        *)
(* Float32 ring buffers per series, a timestamp ring, a viewport (cursor,  *)
(* size, frozen), incremental min/max tracking, a memoised viewport        *)
(* snapshot and requestAnimationFrame-driven momentum scrolling.           *)
(*                                                                         *)
(* Numbers.  Sample values are integers; the non-finite values NaN and     *)
(* +-Infinity are three distinguished integers outside the sample range.   *)
(* Positions passed to setViewPortCursor are fixed-point, in thousandths   *)
(* of a sample, so that Math.round is visible.  Velocities are in          *)
(* thousandths of a sample per millisecond.  The snapshot's y-range is     *)
(* kept in tenths so that the 10% padding is exact.                        *)
(***************************************************************************)
EXTENDS Integers, Sequences, FiniteSets, TLC

VARIABLES
  series,              \* PlotSeries[]: records [id, name, color]
  buffers,             \* Float32Array[]: buffers[k][j] is ring slot j-1 of series k-1
  times,               \* Float64Array: times[j] is the receipt time of ring slot j-1
  capacity,
  writeIndex,          \* count of samples written (the store's "total")
  viewPortCursor,
  viewPortSize,
  frozen,
  globalMin,
  globalMax,
  firstTimestamp,
  animationId,         \* momentumState.animationId (NoAnimation when null)
  frames,              \* callbacks handed to requestAnimationFrame and not yet run or cancelled
  cachedViewPortData,  \* <<>> when null, else <<[key, data]>>: the snapshot and the cacheKey it was built for
  clock,               \* the last value Date.now() returned
  listeners,           \* number of subscribed observers (the size of the listeners set)
  notified,            \* observer calls made by the last operation: one per observer per emit()
  snapshot,            \* the StoreSnapshot of the scroll-offset RingStore (getWindow store)
  window,              \* what the last window query of the scroll-offset store returned
  interaction,         \* the drag state of useCanvasInteractions and the callbacks it made
  hist,                \* history: the retained rows as they were given to append, oldest first
  appended             \* history: number of non-empty append calls since the store was last empty,
                       \* Unknown once setCapacity has resized a store that holds samples

vars == <<series, buffers, times, capacity, writeIndex, viewPortCursor, viewPortSize,
          frozen, globalMin, globalMax, firstTimestamp, animationId, frames,
          cachedViewPortData, clock, listeners, notified, snapshot, window, interaction, hist, appended>>

\* The variables of the cursor-based store, with its observers and histories.
cursorVars == <<series, buffers, times, capacity, writeIndex, viewPortCursor, viewPortSize,
                frozen, globalMin, globalMax, firstTimestamp, animationId, frames,
                cachedViewPortData, listeners, notified, hist, appended>>

storeVars == <<series, buffers, times, capacity, writeIndex, viewPortCursor, viewPortSize,
               frozen, globalMin, globalMax, firstTimestamp>>

-----------------------------------------------------------------------------
(* Bounds of the model *)

MaxCap == 2          \* capacities range over 0..MaxCap
MaxChannels == 2     \* rows have 1..MaxChannels values
MaxAppends == 4      \* append is called while writeIndex < MaxAppends
MaxInitView == 2     \* the constructor's viewPortSize ranges over 1..MaxInitView
MaxZoomCap == 16     \* the capacity the zoom operations are exercised at
MaxZoomAppends == 13 \* appends made while the zoom operations are exercised
MaxListeners == 1    \* observers subscribed at the same time
MaxClock == 3        \* Date.now() ranges over 1..MaxClock where time passes between appends
MaxFrames == 1       \* an observer restarts momentum while at most MaxFrames callbacks are pending
MaxDrags == 2        \* drags started on the canvas
MaxPanCalls == 3     \* handlePanDelta calls during one drag

\* The value of the history counter once it no longer counts from an empty store.
Unknown == MaxAppends + 1

-----------------------------------------------------------------------------
(* Numbers *)

NaN == 999999999
PosInf == 1000000000
NegInf == -1000000000

\* Largest magnitude up to which every integer is a Float32 (24-bit significand).
F32Exact == 16777216
\* An odd integer just above it: a finite double that is not a Float32.
BigOdd == F32Exact + 1

TimeNull == -1
NoAnimation == 0
MinViewPortSize == 10
DefaultColorCount == 8
PositionScale == 1000
VelocityThreshold == 5
YScale == 10

Min(a, b) == IF a < b THEN a ELSE b
Max(a, b) == IF a > b THEN a ELSE b
Abs(a) == IF a < 0 THEN -a ELSE a

IsFinite(v) == v # NaN /\ v # PosInf /\ v # NegInf

\* Storing a number into a Float32Array element: round to nearest, ties to even.
\* Exact up to 2^24; between 2^24 and 2^25 the representable values are the even integers.
Fround(v) ==
  IF ~IsFinite(v) \/ Abs(v) <= F32Exact THEN v
  ELSE LET a == Abs(v)
           q == a \div 2
           r == IF a % 2 = 0 THEN a
                ELSE IF q % 2 = 0 THEN 2 * q ELSE 2 * q + 2
       IN IF v < 0 THEN -r ELSE r

\* Math.round of a position given in thousandths (halves round towards +Infinity).
RoundPosition(p) == (p + (PositionScale \div 2)) \div PositionScale

-----------------------------------------------------------------------------
(* Inputs *)

\* Rows of n values: small numbers, numbers that are not Float32 values, non-finite values.
SmallRow(n) == [i \in 1..n |-> i]
BigRow(n) == [i \in 1..n |-> IF i % 2 = 1 THEN BigOdd ELSE -BigOdd]
GapRow(n) == [i \in 1..n |-> IF i % 3 = 1 THEN NaN ELSE IF i % 3 = 2 THEN PosInf ELSE NegInf]
Rows == UNION { { SmallRow(n), BigRow(n), GapRow(n) } : n \in 1..MaxChannels }
PlainRows == { SmallRow(n) : n \in 1..MaxChannels }

NameLists == { <<>>, <<"A">> }
DefaultNames == <<"S1", "S2", "S3", "S4", "S5", "S6">>

Capacities == 0..MaxCap
Positions == { -1500, -500, 0, 499, 500, 1000, 1500, 2000, 2499, 50000 }
WholePositions == { 0, 1000, 50000 }
Sizes == { 1, 12 }
Deltas == { -1000, 400, 1000 }
ZoomFactors == { <<1, 10>>, <<1, 2>>, <<4, 5>>, <<5, 4>>, <<2, 1>>, <<5, 1>> }
Velocities == { 3, -12, 12 }
FrameGaps == { 200 }

-----------------------------------------------------------------------------
(* Helpers on arrays: JavaScript index i is TLA+ index i+1 *)

Fill(n, v) == [j \in 1..n |-> v]

DefaultSeries(i, name) == [id |-> i, name |-> name, color |-> i % DefaultColorCount]

\* The last n elements of a sequence.
LastN(s, n) == SubSeq(s, Len(s) - n + 1, Len(s))

-----------------------------------------------------------------------------
(* Series and buffers *)

\* reset(): the series, buffers and timestamps built for a list of names.
ResetSeries(names) == [i \in 1..Len(names) |-> DefaultSeries(i - 1, names[i])]
ResetBuffersKept(cap, names) ==
  [k \in 1..Len(names) |-> IF k <= Len(buffers) THEN buffers[k] ELSE Fill(cap, NaN)]
ResetBuffers(cap, names) == [k \in 1..Len(names) |-> Fill(cap, NaN)]

\* adjustSeriesCount(newCount): grow with default-named series and NaN-filled
\* buffers, or drop the trailing series and buffers.
AdjustSeries(ser, newCount) ==
  IF newCount > Len(ser)
  THEN [i \in 1..newCount |-> IF i <= Len(ser) THEN ser[i]
                               ELSE DefaultSeries(i - 1, DefaultNames[i])]
  ELSE SubSeq(ser, 1, newCount)

AdjustBuffersFresh(bufs, cap, newCount) == [k \in 1..newCount |-> Fill(cap, NaN)]
AdjustBuffers(bufs, cap, newCount) ==
  IF newCount > Len(bufs)
  THEN [k \in 1..newCount |-> IF k <= Len(bufs) THEN bufs[k] ELSE Fill(cap, NaN)]
  ELSE SubSeq(bufs, 1, newCount)

\* buffers[i][writeIndex % capacity] = value for every series; a series without a
\* value gets NaN.  With capacity 0 the index is NaN and the store does nothing.
WriteRowNoWrap(bufs, cap, wi, values) ==
  IF cap = 0 THEN bufs
  ELSE [k \in 1..Len(bufs) |->
          [bufs[k] EXCEPT ![Min(wi, cap - 1) + 1] =
             IF k <= Len(values) THEN Fround(values[k]) ELSE NaN]]
WriteRow(bufs, cap, wi, values) ==
  IF cap = 0 THEN bufs
  ELSE [k \in 1..Len(bufs) |->
          [bufs[k] EXCEPT ![(wi % cap) + 1] =
             IF k <= Len(values) THEN Fround(values[k]) ELSE NaN]]

WriteTime(ts, cap, wi, now) ==
  IF cap = 0 THEN ts ELSE [ts EXCEPT ![(wi % cap) + 1] = now]

\* The finite numbers among the first n values of a row.
FiniteOf(values, n) == { values[i] : i \in { j \in 1..n : IsFinite(values[j]) } }

SetMin(S) == CHOOSE m \in S : \A x \in S : m <= x
SetMax(S) == CHOOSE m \in S : \A x \in S : m >= x

\* The incremental update of globalMin / globalMax in append: it looks at the
\* values as passed, before they are stored.
AppendMin(gmin, values, n) ==
  LET F == FiniteOf(values, n) IN IF F = {} THEN gmin ELSE Min(gmin, SetMin(F))
AppendMax(gmax, values, n) ==
  LET F == FiniteOf(values, n) IN IF F = {} THEN gmax ELSE Max(gmax, SetMax(F))

\* recomputeGlobalMinMax(): scan every slot of every buffer.
StoredFinite(bufs, nSeries, cap) ==
  { bufs[k][j] : k \in 1..nSeries, j \in 1..cap } \ { NaN, PosInf, NegInf }
RecomputeMin(bufs, nSeries, cap) ==
  LET F == StoredFinite(bufs, nSeries, cap) IN IF F = {} THEN PosInf ELSE SetMin(F)
RecomputeMax(bufs, nSeries, cap) ==
  LET F == StoredFinite(bufs, nSeries, cap) IN IF F = {} THEN NegInf ELSE SetMax(F)

\* this.writeIndex++ : the write index counts every sample and never wraps.
NextWriteIndexWrapped(wi, cap) == IF cap = 0 THEN 0 ELSE (wi + 1) % cap
NextWriteIndex(wi, cap) == wi + 1

\* if (!this.frozen) this.viewPortCursor = this.writeIndex - 1, wi being the index after the write
FollowAlways(fz, wi, cur) == wi - 1
FollowOffByOne(fz, wi, cur) == IF ~fz THEN wi ELSE cur
FollowCursor(fz, wi, cur) == IF ~fz THEN wi - 1 ELSE cur

\* setViewPortCursor(position): the cursor it leaves, for a write index and capacity.
ClampCursorNoFloor(position, wi, cap) ==
  Min(RoundPosition(position), Max(0, Min(wi - 1, cap - 1)))
ClampCursor(position, wi, cap) ==
  LET rounded == RoundPosition(position)
      maxCursor == Max(0, Min(wi - 1, cap - 1))
  IN Min(Max(0, rounded), maxCursor)

\* setViewPortSize(size): the size it leaves.
ClampSizeNoFloor(size, cap) == Min(size, cap)
ClampSize(size, cap) == Max(MinViewPortSize, Min(size, cap))

-----------------------------------------------------------------------------
(* History of what was appended *)

\* A row as the current series see it: dropped channels are gone, added ones missing.
Reconcile(row, n) == [i \in 1..n |-> IF i <= Len(row) THEN row[i] ELSE NaN]

HistAppend(h, cap, values) ==
  LET all == Append([r \in 1..Len(h) |-> Reconcile(h[r], Len(values))], values)
  IN LastN(all, Min(cap, Len(all)))

HistResize(h, cap) == LastN(h, Min(Len(h), cap))

-----------------------------------------------------------------------------
(* The viewport snapshot *)

\* Whether getViewPortData() copies the sample with total index si.
SampleValid(si) ==
  /\ si >= 0
  /\ si < writeIndex
  /\ (writeIndex <= capacity \/ si >= writeIndex - capacity)

ViewLength ==
  LET size == Min(viewPortSize, capacity)
      startPosition == viewPortCursor - (size - 1)
  IN IF startPosition > viewPortCursor THEN 0 ELSE viewPortCursor - startPosition + 1

ViewStart == viewPortCursor - (Min(viewPortSize, capacity) - 1)

SeriesViews ==
  IF ViewStart > viewPortCursor
  THEN [k \in 1..Len(buffers) |-> <<>>]
  ELSE [k \in 1..Len(series) |->
          [i \in 1..ViewLength |->
             IF SampleValid(ViewStart + i - 1)
             THEN buffers[k][((ViewStart + i - 1) % capacity) + 1]
             ELSE NaN]]

TimesView ==
  [i \in 1..ViewLength |->
     IF SampleValid(ViewStart + i - 1)
     THEN times[((ViewStart + i - 1) % capacity) + 1]
     ELSE NaN]

ViewFinite(views) ==
  { views[k][i] : k \in DOMAIN views, i \in 1..ViewLength } \ { NaN, PosInf, NegInf }

\* yMin and yMax of the snapshot, in tenths.
YRangeNoPad(views) ==
  LET F == ViewFinite(views)
  IN IF F = {} THEN <<-1 * YScale, 1 * YScale>>
     ELSE <<SetMin(F) * YScale, SetMax(F) * YScale>>
YRange(views) ==
  LET F == ViewFinite(views)
  IN IF F = {} THEN <<-1 * YScale, 1 * YScale>>
     ELSE LET lo == SetMin(F)
              hi == SetMax(F)
          IN IF hi = lo
             THEN LET pad == Max(1 * YScale, Abs(hi)) \* max(1, |yMax| * 0.1), in tenths
                  IN <<lo * YScale - pad, hi * YScale + pad>>
             ELSE <<lo * YScale, hi * YScale>>

\* The snapshot a cache miss computes.
ComputeViewPortData ==
  [ series |-> series,
    data |-> SeriesViews,
    times |-> TimesView,
    yMin |-> YRange(SeriesViews)[1],
    yMax |-> YRange(SeriesViews)[2],
    viewPortCursor |-> viewPortCursor,
    viewPortSize |-> viewPortSize,
    firstTimestamp |-> firstTimestamp ]

CurrentKey ==
  [writeIndex |-> writeIndex, viewPortCursor |-> viewPortCursor,
   viewPortSize |-> viewPortSize, frozen |-> frozen]

\* cacheKey is read only while cachedViewPortData is not null, so the two are kept together.
CacheHitNever == FALSE
CacheHit == cachedViewPortData # <<>> /\ cachedViewPortData[1].key = CurrentKey

\* What getViewPortData() returns in the current state.
ViewPortDataResult ==
  IF CacheHit THEN cachedViewPortData[1].data ELSE ComputeViewPortData


-----------------------------------------------------------------------------
(* Momentum: requestAnimationFrame callbacks *)

\* An id requestAnimationFrame has not handed out to a callback still known.
FreshId ==
  CHOOSE n \in 1..(Cardinality(frames) + 2) :
    n # animationId /\ \A f \in frames : f.id # n

\* cancelAnimationFrame(id)
Cancel(fs, id) == { f \in fs : f.id # id }

\* 0.95 ^ (dt / 16.7), in thousandths.
DecayPermille(dt) == CASE dt = 100 -> 736 [] dt = 200 -> 541 [] OTHER -> 949

\* currentVelocity *= Math.pow(0.95, dt / 16.7), in fixed point (truncated).
DecayNone(v, dt) == v
Decay(v, dt) ==
  LET m == (Abs(v) * DecayPermille(dt)) \div 1000 IN IF v < 0 THEN -m ELSE m

-----------------------------------------------------------------------------
(* The scroll-offset RingStore: a ring addressed by writeIndex and length, a window   *)
(* given by its size and its scroll offset from the newest sample, and getWindow.     *)

DefaultWindowSize == 200
NoWindow == [raised |-> FALSE, startFromNewest |-> 0, requested |-> 0, length |-> 0,
             windowStartTotal |-> 0, data |-> <<>>, times |-> <<>>, anchors |-> <<>>]

\* Math.max(1, Math.round(windowLength / 5)): the anchor stride for a window length.
AnchorStride(windowLength) == Max(1, (2 * windowLength + 5) \div 10)

\* new RingStore(cap, seriesCount): new Float32Array(cap) is filled with zeros.  The
\* record holds the StoreSnapshot and, with it, the store's anchorEverySamples.
NewSnapshot(cap, seriesCount) ==
  [ buffers |-> [k \in 1..seriesCount |-> Fill(cap, 0)],
    times |-> Fill(cap, 0),
    capacity |-> cap,
    length |-> 0,
    writeIndex |-> 0,
    total |-> 0,
    anchors |-> <<>>,
    anchorEverySamples |-> AnchorStride(DefaultWindowSize),
    windowSize |-> DefaultWindowSize,
    scrollPosition |-> 0,
    frozen |-> FALSE,
    freezeBaseTotal |-> 0 ]

\* x % cap in JavaScript, for x >= 0: NaN when cap is 0.
JsMod(x, cap) == IF cap = 0 \/ x = NaN THEN NaN ELSE x % cap

\* typedArray[idx] = v: a write at index NaN does nothing.
SetAt(arr, idx, v) ==
  IF idx = NaN \/ idx >= Len(arr) THEN arr ELSE [arr EXCEPT ![idx + 1] = v]

\* calculateDataPosition({uiStart, delta, frozen})
CalculateDataPosition(uiStart, delta, isFrozen) ==
  Max(0, uiStart + (IF isFrozen THEN delta ELSE 0))

\* calculateScrollBounds(dataLength, windowLength, delta, frozen)
CalculateScrollBounds(dataLength, windowLength, delta, isFrozen) ==
  [min |-> IF isFrozen THEN -delta ELSE 0, max |-> Max(0, dataLength - windowLength)]

\* clampScroll(value, bounds)
ClampScrollUpper(value, bounds) == Min(bounds.max, value)
ClampScroll(value, bounds) == Max(bounds.min, Min(bounds.max, value))

\* The store's own calculateScrollBounds(), on a snapshot s.
ScrollBoundsOf(s) ==
  LET deltaSize == IF s.frozen THEN Max(0, s.total - s.freezeBaseTotal) ELSE 0
  IN CalculateScrollBounds(s.length, s.windowSize, deltaSize, s.frozen)

\* recomputeAnchors(): the anchors of the retained samples of s, oldest first.
RecomputeAnchors(s) ==
  LET len == s.length
      oldestTotal == s.total - len
      at(pos) == IF len < s.capacity
                 THEN s.times[pos + 1]
                 ELSE s.times[((s.writeIndex + pos) % s.capacity) + 1]
      all == [p \in 1..len |-> [total |-> oldestTotal + p - 1, time |-> at(p - 1)]]
  IN SelectSeq(all, LAMBDA a : a.total % s.anchorEverySamples = 0)

\* append: the anchor of the sample just written, if it falls on the stride.
PushAnchor(anchors, justWrittenTotal, stride, now) ==
  IF justWrittenTotal % stride = 0
  THEN Append(anchors, [total |-> justWrittenTotal, time |-> now]) ELSE anchors

\* append and setMaxHistory: drop the anchors older than minKeepTotal.
TrimAnchorsKeepOne(anchors, minKeepTotal) ==
  SelectSeq(anchors, LAMBDA a : a.total >= minKeepTotal - 1)
TrimAnchors(anchors, minKeepTotal) ==
  SelectSeq(anchors, LAMBDA a : a.total >= minKeepTotal)

\* getWindow: the anchors returned with a window that starts at windowStartTotal.
WindowAnchors(anchors, windowStartTotal, newestTotal) ==
  SelectSeq(anchors, LAMBDA a : a.total >= windowStartTotal /\ a.total <= newestTotal)

\* The part of a ring that getWindow copies: slots ringStart..ringEnd, wrapping.
RingSlice(src, ringStart, ringEnd) ==
  IF ringStart <= ringEnd
  THEN SubSeq(src, ringStart + 1, ringEnd + 1)
  ELSE SubSeq(src, ringStart + 1, Len(src)) \o SubSeq(src, 1, ringEnd + 1)

\* paddedView.fill(NaN); paddedView.set(actual, offset).  TypedArray.set raises a
\* RangeError when the source does not fit behind the offset.
SetRaises(actual, offset, requestedLength) == Len(actual) + offset > requestedLength

PaddedView(actual, offset, requestedLength) ==
  [i \in 1..requestedLength |->
     IF i > offset /\ i - offset <= Len(actual) THEN actual[i - offset] ELSE NaN]

\* The last ring slot getWindow copies.
RingEnd(newestRingIndex, startFromNewest, cap) == newestRingIndex

\* getWindow({startFromNewest, length}) on the snapshot s.
GetWindowResult(s, specStart, specLength) ==
  LET len == s.length
      cap == s.capacity
      clampedStartFromNewest == Max(0, specStart)
      maxWindowLength == Max(0, len - clampedStartFromNewest)
      actualDataLength == Max(0, Min(specLength, maxWindowLength))
      requestedLength == Max(0, specLength)
      startFromNewest == clampedStartFromNewest
      ringStartCandidate == IF len = cap THEN s.writeIndex ELSE len
      newestRingIndex == (ringStartCandidate - 1 + cap) % cap
      ringEnd == RingEnd(newestRingIndex, startFromNewest, cap)
      ringStart == (newestRingIndex - (actualDataLength - 1) - startFromNewest + cap * 2) % cap
      offset == requestedLength - actualDataLength
      view(src) ==
        IF requestedLength = 0 THEN <<>>
        ELSE IF actualDataLength = 0 THEN Fill(requestedLength, NaN)
        ELSE IF actualDataLength < requestedLength
             THEN PaddedView(RingSlice(src, ringStart, ringEnd), offset, requestedLength)
             ELSE RingSlice(src, ringStart, ringEnd)
      raises ==
        /\ requestedLength # 0
        /\ actualDataLength # 0
        /\ actualDataLength < requestedLength
        /\ SetRaises(RingSlice(s.times, ringStart, ringEnd), offset, requestedLength)
  IN [ raised |-> raises,
       startFromNewest |-> specStart,
       requested |-> specLength,
       length |-> requestedLength,
       windowStartTotal |-> (s.total - 1) - (requestedLength - 1) - startFromNewest,
       data |-> IF raises THEN <<>> ELSE [k \in 1..Len(s.buffers) |-> view(s.buffers[k])],
       times |-> IF raises THEN <<>> ELSE view(s.times),
       anchors |-> IF raises THEN <<>>
                   ELSE WindowAnchors(s.anchors,
                                      (s.total - 1) - (requestedLength - 1) - startFromNewest,
                                      s.total - 1) ]

\* getCurrentWindow() on the snapshot s.
GetCurrentWindowResult(s) ==
  LET delta == IF s.frozen THEN Max(0, s.total - s.freezeBaseTotal) ELSE 0
      startFromNewest == CalculateDataPosition(s.scrollPosition, delta, s.frozen)
  IN GetWindowResult(s, startFromNewest, s.windowSize)

-----------------------------------------------------------------------------
(* useCanvasInteractions: one drag at a time, panned in whole samples.  Sample counts *)
(* are in thousandths of a sample (PanScale).                                         *)

PanScale == 1000

\* The state the effect starts with, no listener of a drag attached; panStarts, drags,
\* panEnds, steps and moved record the callbacks made and the distances asked for.
NoInteraction ==
  [ isDragging |-> FALSE, isPinching |-> FALSE, pointers |-> {}, attached |-> FALSE,
    accumSamples |-> 0, down |-> {},
    panStarts |-> 0, drags |-> 0, panEnds |-> 0, steps |-> <<>>, moved |-> 0, calls |-> 0 ]

\* accumSamples >= 0 ? Math.floor(accumSamples) : Math.ceil(accumSamples)
PanStepRaw(accum) == accum
PanStep(accum) ==
  IF accum >= 0 THEN (accum \div PanScale) * PanScale
  ELSE 0 - (((0 - accum) \div PanScale) * PanScale)

\* handlePanDelta(deltaX) with the samplesPerPixel of the call; onPanDelta is given.
PanDelta(st, deltaX, samplesPerPixel) ==
  IF samplesPerPixel > 0
  THEN LET accum == st.accumSamples + deltaX * samplesPerPixel
           step == PanStep(accum)
       IN IF step # 0
          THEN [st EXCEPT !.accumSamples = accum - step, !.steps = Append(st.steps, step)]
          ELSE [st EXCEPT !.accumSamples = accum]
  ELSE st

\* cleanupInteractions(): the listeners added at pointerdown are removed.
CleanupInteractions(st) ==
  [st EXCEPT !.attached = FALSE, !.pointers = {}, !.isPinching = FALSE]

\* endInteraction(e)
EndInteractionSilent(st) ==
  LET unpinched == [st EXCEPT !.isPinching = FALSE]
  IN CleanupInteractions([unpinched EXCEPT !.isDragging = FALSE])
EndInteraction(st) ==
  LET unpinched == [st EXCEPT !.isPinching = FALSE]
  IN IF ~unpinched.isDragging
     THEN CleanupInteractions(unpinched)
     ELSE LET ended == CleanupInteractions([unpinched EXCEPT !.isDragging = FALSE])
          IN [ended EXCEPT !.panEnds = ended.panEnds + 1]

-----------------------------------------------------------------------------
(* The state after construction: new RingStore(capacity, viewPortSize) *)

Init ==
  \E cap \in Capacities, size \in 1..MaxInitView :
    /\ series = <<>>
    /\ buffers = <<>>
    /\ times = Fill(cap, NaN)
    /\ capacity = cap
    /\ writeIndex = 0
    /\ viewPortCursor = 0
    /\ viewPortSize = size
    /\ frozen = FALSE
    /\ globalMin = PosInf
    /\ globalMax = NegInf
    /\ firstTimestamp = TimeNull
    /\ animationId = NoAnimation
    /\ frames = {}
    /\ cachedViewPortData = <<>>
    /\ clock = 1
    /\ listeners = 0
    /\ notified = 0
    /\ snapshot = NewSnapshot(0, 1)
    /\ window = NoWindow
    /\ interaction = NoInteraction
    /\ hist = <<>>
    /\ appended = 0

-----------------------------------------------------------------------------
(* Operations *)

\* setSeries(names): reset(capacity, viewPortSize, names), drop the cache, emit.
SetSeries(names) ==
  /\ writeIndex' = 0
  /\ viewPortCursor' = 0
  /\ series' = ResetSeries(names)
  /\ buffers' = ResetBuffers(capacity, names)
  /\ times' = Fill(capacity, NaN)
  /\ frozen' = FALSE
  /\ globalMin' = PosInf
  /\ globalMax' = NegInf
  /\ firstTimestamp' = TimeNull
  /\ cachedViewPortData' = <<>>
  /\ hist' = <<>>
  /\ appended' = 0
  /\ UNCHANGED <<capacity, viewPortSize, animationId, frames, clock>>
  /\ notified' = listeners
  /\ UNCHANGED <<listeners, snapshot, window, interaction>>

\* reset(cap, size, names), called directly: it neither drops the cached snapshot nor emits.
Reset(cap, size, names) ==
  /\ series' = ResetSeries(names)
  /\ buffers' = ResetBuffers(cap, names)
  /\ times' = Fill(cap, NaN)
  /\ capacity' = cap
  /\ writeIndex' = 0
  /\ viewPortCursor' = 0
  /\ viewPortSize' = size
  /\ frozen' = FALSE
  /\ globalMin' = PosInf
  /\ globalMax' = NegInf
  /\ firstTimestamp' = TimeNull
  /\ hist' = <<>>
  /\ appended' = 0
  /\ UNCHANGED <<cachedViewPortData, animationId, frames, clock>>
  /\ notified' = 0
  /\ UNCHANGED <<listeners, snapshot, window, interaction>>

\* append: the first timestamp ever received is captured once.
FirstTimestampLatest(ft, now) == now
FirstTimestampAfter(ft, now) == IF ft = TimeNull THEN now ELSE ft

\* append(values)
AppendValues(values, now) ==
  /\ now >= clock
  /\ IF Len(values) = 0
     THEN UNCHANGED <<storeVars, cachedViewPortData, clock, hist, appended>>
     ELSE LET ser == IF Len(values) # Len(buffers)
                     THEN AdjustSeries(series, Len(values)) ELSE series
              bufs == IF Len(values) # Len(buffers)
                      THEN AdjustBuffers(buffers, capacity, Len(values)) ELSE buffers
              numValuesToWrite == Min(Len(values), Len(bufs))
          IN /\ writeIndex' = NextWriteIndex(writeIndex, capacity)
             /\ series' = ser
             /\ buffers' = WriteRow(bufs, capacity, writeIndex, values)
             /\ globalMin' = AppendMin(globalMin, values, numValuesToWrite)
             /\ globalMax' = AppendMax(globalMax, values, numValuesToWrite)
             /\ times' = WriteTime(times, capacity, writeIndex, now)
             /\ firstTimestamp' = FirstTimestampAfter(firstTimestamp, now)
             /\ viewPortCursor' = FollowCursor(frozen, writeIndex', viewPortCursor)
             /\ cachedViewPortData' = <<>>
             /\ clock' = now
             /\ hist' = HistAppend(hist, capacity, values)
             /\ appended' = IF appended = Unknown THEN Unknown ELSE appended + 1
             /\ UNCHANGED <<capacity, viewPortSize, frozen>>
  /\ UNCHANGED <<animationId, frames>>
  /\ notified' = IF Len(values) = 0 THEN 0 ELSE listeners
  /\ UNCHANGED <<listeners, snapshot, window, interaction>>

\* subscribe(fn)
Subscribe ==
  /\ listeners < MaxListeners
  /\ listeners' = listeners + 1
  /\ notified' = 0
  /\ UNCHANGED <<storeVars, animationId, frames, cachedViewPortData, clock, snapshot, window, interaction,
                 hist, appended>>

\* The function subscribe(fn) returned: listeners.delete(fn)
Unsubscribe ==
  /\ listeners > 0
  /\ listeners' = listeners - 1
  /\ notified' = 0
  /\ UNCHANGED <<storeVars, animationId, frames, cachedViewPortData, clock, snapshot, window, interaction,
                 hist, appended>>

AppendRowEmptyNotifies(values, now) ==
  /\ writeIndex < MaxAppends
  /\ IF Len(values) = 0
     THEN /\ notified' = listeners
          /\ UNCHANGED <<storeVars, animationId, frames, cachedViewPortData, clock, listeners,
                         snapshot, window, interaction, hist, appended>>
     ELSE AppendValues(values, now)
\* append(values), while fewer than MaxAppends samples were written.
AppendRow(values, now) ==
  /\ writeIndex < MaxAppends
  /\ AppendValues(values, now)

\* setCapacity: how many of the latest samples a resize to capacity c keeps.
KeepCountOffByOne(wi, cap, c) == Max(0, Min(Min(wi, cap), c) - 1)
KeepCount(wi, cap, c) ==
  LET retainedCount == Min(wi, cap) IN Min(retainedCount, c)

\* setCapacity: the ring index of the j-th sample kept, counted from total index start.
SrcRingIndexFromZero(start, j, cap) == j % cap
SrcRingIndex(start, j, cap) == (((start + j) % cap) + cap) % cap

\* setCapacity(c)
SetCapacity(c) ==
  /\ IF c = capacity
     THEN UNCHANGED <<storeVars, cachedViewPortData, hist, appended>>
     ELSE LET keepCount == KeepCount(writeIndex, capacity, c)
              srcStartTotalIndex == writeIndex - keepCount
              newBuffers == [s \in 1..Len(buffers) |->
                               [j \in 1..c |-> IF j <= keepCount
                                               THEN buffers[s][SrcRingIndex(srcStartTotalIndex, j - 1, capacity) + 1]
                                               ELSE NaN]]
              newTimes == [j \in 1..c |-> IF j <= keepCount
                                          THEN times[SrcRingIndex(srcStartTotalIndex, j - 1, capacity) + 1]
                                          ELSE NaN]
          IN /\ buffers' = newBuffers
             /\ times' = newTimes
             /\ capacity' = c
             /\ writeIndex' = keepCount
             /\ globalMin' = RecomputeMin(newBuffers, Len(series), c)
             /\ globalMax' = RecomputeMax(newBuffers, Len(series), c)
             /\ viewPortSize' = Min(viewPortSize, c)
             /\ viewPortCursor' =
                  IF ~frozen THEN ClampCursor((keepCount - 1) * PositionScale, keepCount, c)
                  ELSE ClampCursor(viewPortCursor * PositionScale, keepCount, c)
             /\ cachedViewPortData' = <<>>
             /\ hist' = HistResize(hist, c)
             /\ appended' = IF writeIndex = 0 THEN appended ELSE Unknown
             /\ UNCHANGED <<series, frozen, firstTimestamp>>
  /\ UNCHANGED <<animationId, frames, clock>>
  /\ notified' = IF c = capacity THEN 0 ELSE listeners
  /\ UNCHANGED <<listeners, snapshot, window, interaction>>

\* getViewPortData(): serve the cached snapshot or compute and cache one.
GetViewPortData ==
  /\ ~CacheHit
  /\ cachedViewPortData' = <<[key |-> CurrentKey, data |-> ComputeViewPortData]>>
  /\ UNCHANGED <<storeVars, animationId, frames, clock, hist, appended>>
  /\ notified' = 0
  /\ UNCHANGED <<listeners, snapshot, window, interaction>>

\* setViewPortSize(size)
SetViewPortSize(size) ==
  /\ viewPortSize' = ClampSize(size, capacity)
  /\ cachedViewPortData' = <<>>
  /\ UNCHANGED <<series, buffers, times, capacity, writeIndex, viewPortCursor, frozen,
                 globalMin, globalMax, firstTimestamp, animationId, frames,
                 clock, hist, appended>>
  /\ notified' = listeners
  /\ UNCHANGED <<listeners, snapshot, window, interaction>>

\* setViewPortCursor(position), position in thousandths of a sample
SetViewPortCursor(position) ==
  /\ viewPortCursor' = ClampCursor(position, writeIndex, capacity)
  /\ cachedViewPortData' = <<>>
  /\ UNCHANGED <<series, buffers, times, capacity, writeIndex, viewPortSize, frozen,
                 globalMin, globalMax, firstTimestamp, animationId, frames,
                 clock, hist, appended>>
  /\ notified' = listeners
  /\ UNCHANGED <<listeners, snapshot, window, interaction>>

\* adjustViewPortCursor(delta), delta in thousandths of a sample
AdjustViewPortCursor(delta) ==
  /\ viewPortCursor' = ClampCursor(viewPortCursor * PositionScale + delta, writeIndex, capacity)
  /\ cachedViewPortData' = <<>>
  /\ UNCHANGED <<series, buffers, times, capacity, writeIndex, viewPortSize, frozen,
                 globalMin, globalMax, firstTimestamp, animationId, frames,
                 clock, hist, appended>>
  /\ notified' = listeners
  /\ UNCHANGED <<listeners, snapshot, window, interaction>>

\* setFrozen(f)
SetFrozen(f) ==
  /\ frozen' = f
  /\ viewPortCursor' = IF ~f THEN ClampCursor((writeIndex - 1) * PositionScale, writeIndex, capacity)
                       ELSE viewPortCursor
  /\ cachedViewPortData' = <<>>
  /\ UNCHANGED <<series, buffers, times, capacity, writeIndex, viewPortSize,
                 globalMin, globalMax, firstTimestamp, animationId, frames,
                 clock, hist, appended>>
  /\ notified' = listeners
  /\ UNCHANGED <<listeners, snapshot, window, interaction>>

\* zoomByFactor(factor), factor = f[1] / f[2]; f[2] = 0 stands for an infinite factor.
ZoomSizeTruncated(currentLen, f, cap) ==
  LET tooSmall == 2 * f[1] < f[2]
      tooBig == f[1] > 2 * f[2]
      num == IF tooSmall THEN 1 ELSE IF tooBig THEN 2 ELSE f[1]
      den == IF tooSmall THEN 2 ELSE IF tooBig THEN 1 ELSE f[2]
      desired == (currentLen * den) \div num
  IN Max(MinViewPortSize, Min(cap, desired))
ZoomSize(currentLen, f, cap) ==
  LET tooSmall == 2 * f[1] < f[2]            \* factor < 0.5
      tooBig == f[1] > 2 * f[2]              \* factor > 2
      num == IF tooSmall THEN 1 ELSE IF tooBig THEN 2 ELSE f[1]
      den == IF tooSmall THEN 2 ELSE IF tooBig THEN 1 ELSE f[2]
      desired == (2 * currentLen * den + num) \div (2 * num)   \* Math.round(currentLen / clamped)
  IN Max(MinViewPortSize, Min(cap, desired))

ZoomByFactorInverted(f) ==
  /\ viewPortSize' = ClampSize(ZoomSize(viewPortSize, <<f[2], f[1]>>, capacity), capacity)
  /\ cachedViewPortData' = <<>>
  /\ UNCHANGED <<series, buffers, times, capacity, writeIndex, viewPortCursor, frozen,
                 globalMin, globalMax, firstTimestamp, animationId, frames,
                 clock, hist, appended>>
  /\ notified' = listeners
  /\ UNCHANGED <<listeners, snapshot, window, interaction>>
ZoomByFactor(f) ==
  /\ viewPortSize' = ClampSize(ZoomSize(viewPortSize, f, capacity), capacity)
  /\ cachedViewPortData' = <<>>
  /\ UNCHANGED <<series, buffers, times, capacity, writeIndex, viewPortCursor, frozen,
                 globalMin, globalMax, firstTimestamp, animationId, frames,
                 clock, hist, appended>>
  /\ notified' = listeners
  /\ UNCHANGED <<listeners, snapshot, window, interaction>>

\* stopMomentum()
StopMomentum ==
  /\ frames' = IF animationId # NoAnimation THEN Cancel(frames, animationId) ELSE frames
  /\ animationId' = NoAnimation
  /\ UNCHANGED <<storeVars, cachedViewPortData, clock, hist, appended>>
  /\ notified' = 0
  /\ UNCHANGED <<listeners, snapshot, window, interaction>>

\* startMomentum(velocity)
StartMomentum(v) ==
  LET stopped == IF animationId # NoAnimation THEN Cancel(frames, animationId) ELSE frames
  IN /\ IF ~IsFinite(v) \/ Abs(v) < VelocityThreshold
        THEN /\ frames' = stopped
             /\ animationId' = NoAnimation
        ELSE /\ frames' = stopped \cup { [id |-> FreshId, v |-> v] }
             /\ animationId' = FreshId
     /\ UNCHANGED <<storeVars, cachedViewPortData, clock, hist, appended>>
     /\ notified' = 0
     /\ UNCHANGED <<listeners, snapshot, window, interaction>>

\* The browser runs a pending callback: step(ts), dt milliseconds after the last one.
MomentumStep(f, dt) ==
  LET currentVelocity == Decay(f.v, dt)
      running == frames \ {f}
  IN /\ f \in frames
     /\ IF Abs(currentVelocity) < VelocityThreshold
        THEN /\ frames' = IF animationId # NoAnimation THEN Cancel(running, animationId)
                          ELSE running
             /\ animationId' = NoAnimation
             /\ UNCHANGED <<viewPortCursor, cachedViewPortData>>
        ELSE LET id == FreshId
             IN /\ viewPortCursor' = ClampCursor(viewPortCursor * PositionScale
                                                   + currentVelocity * dt, writeIndex, capacity)
                /\ cachedViewPortData' = <<>>
                /\ frames' = running \cup { [id |-> id, v |-> currentVelocity] }
                /\ animationId' = id
     /\ UNCHANGED <<series, buffers, times, capacity, writeIndex, viewPortSize, frozen,
                    globalMin, globalMax, firstTimestamp, clock, hist, appended>>
     /\ notified' = IF Abs(currentVelocity) < VelocityThreshold THEN 0 ELSE listeners
     /\ UNCHANGED <<listeners, snapshot, window, interaction>>

\* A second id requestAnimationFrame can return, after it returned id.
FreshIdAfter(id) ==
  CHOOSE n \in 1..(Cardinality(frames) + 3) :
    n # id /\ n # animationId /\ \A f \in frames : f.id # n

\* step(ts) when an observer notified by its adjustViewPortCursor calls stopMomentum():
\* the callback being run is no longer pending, so the observer's cancel reaches only
\* another pending callback, and the step goes on to schedule its next callback.
MomentumStepStopping(f, dt) ==
  LET currentVelocity == Decay(f.v, dt)
      running == frames \ {f}
      stopped == IF animationId # NoAnimation THEN Cancel(running, animationId) ELSE running
      id == FreshId
  IN /\ f \in frames
     /\ listeners > 0
     /\ Abs(currentVelocity) >= VelocityThreshold
     /\ viewPortCursor' = ClampCursor(viewPortCursor * PositionScale
                                        + currentVelocity * dt, writeIndex, capacity)
     /\ cachedViewPortData' = <<>>
     /\ frames' = stopped \cup { [id |-> id, v |-> currentVelocity] }
     /\ animationId' = id
     /\ notified' = listeners
     /\ UNCHANGED <<series, buffers, times, capacity, writeIndex, viewPortSize, frozen,
                    globalMin, globalMax, firstTimestamp, clock, listeners, snapshot, window, interaction,
                    hist, appended>>

\* step(ts) when an observer notified by its adjustViewPortCursor calls
\* startMomentum(v), v large enough to run: the observer's chain is scheduled, then the
\* step schedules its own next callback and overwrites animationId.
MomentumStepRestarting(f, dt, v) ==
  LET currentVelocity == Decay(f.v, dt)
      running == frames \ {f}
      stopped == IF animationId # NoAnimation THEN Cancel(running, animationId) ELSE running
      started == FreshId
      id == FreshIdAfter(started)
  IN /\ f \in frames
     /\ listeners > 0
     /\ Cardinality(frames) <= MaxFrames
     /\ Abs(currentVelocity) >= VelocityThreshold
     /\ IsFinite(v) /\ Abs(v) >= VelocityThreshold
     /\ viewPortCursor' = ClampCursor(viewPortCursor * PositionScale
                                        + currentVelocity * dt, writeIndex, capacity)
     /\ cachedViewPortData' = <<>>
     /\ frames' = stopped \cup { [id |-> started, v |-> v], [id |-> id, v |-> currentVelocity] }
     /\ animationId' = id
     /\ notified' = listeners
     /\ UNCHANGED <<series, buffers, times, capacity, writeIndex, viewPortSize, frozen,
                    globalMin, globalMax, firstTimestamp, clock, listeners, snapshot, window, interaction,
                    hist, appended>>

\* Every operation of the store.  The viewport, zoom and momentum operations never
\* read a sample, so the rows appended here are the plain ones.  No operation reads
\* the value of a timestamp, so every append is made within the same millisecond.
Next ==
  \/ \E names \in NameLists : SetSeries(names)
  \/ \E values \in PlainRows \cup {<<>>} : AppendRow(values, clock)
  \/ \E c \in Capacities : SetCapacity(c)
  \/ GetViewPortData
  \/ \E size \in Sizes : SetViewPortSize(size)
  \/ \E position \in Positions : SetViewPortCursor(position)
  \/ \E delta \in Deltas : AdjustViewPortCursor(delta)
  \/ \E f \in BOOLEAN : SetFrozen(f)
  \/ \E f \in ZoomFactors : ZoomByFactor(f)
  \/ StopMomentum
  \/ \E v \in Velocities : StartMomentum(v)
  \/ \E f \in frames, dt \in FrameGaps : MomentumStep(f, dt)

Spec == Init /\ [][Next]_vars

\* The operations that write the samples or place the viewport, with rows of every
\* kind.  The operations left out are steps of Next: adjustViewPortCursor, zoomByFactor
\* and momentum change only the cursor and the size, through the same clamps as
\* setViewPortCursor and setViewPortSize, and getViewPortData changes only the cache,
\* which every operation here drops.
NextStore ==
  \/ \E names \in NameLists : SetSeries(names)
  \/ \E values \in Rows \cup {<<>>} : AppendRow(values, clock)
  \/ \E c \in Capacities : SetCapacity(c)
  \/ \E size \in Sizes : SetViewPortSize(size)
  \/ \E position \in WholePositions : SetViewPortCursor(position)
  \/ \E f \in BOOLEAN : SetFrozen(f)

SpecStore == Init /\ [][NextStore]_vars

\* The operations that decide what a snapshot holds, with getViewPortData and a direct
\* reset.
NextCache ==
  \/ \E cap \in Capacities, size \in 1..MaxInitView, names \in NameLists : Reset(cap, size, names)
  \/ \E names \in NameLists : SetSeries(names)
  \/ \E values \in PlainRows \cup {<<>>} : AppendRow(values, clock)
  \/ \E c \in Capacities : SetCapacity(c)
  \/ GetViewPortData
  \/ \E size \in Sizes : SetViewPortSize(size)
  \/ \E position \in WholePositions : SetViewPortCursor(position)
  \/ \E f \in BOOLEAN : SetFrozen(f)

SpecCache == Init /\ [][NextCache]_vars

\* Momentum scrolling with observers: subscribe and unsubscribe, the momentum calls
\* with every kind of velocity, and frame steps during which a notified observer calls
\* back into the store.
MomentumVelocities == { 3, -12, 12, NaN, PosInf, NegInf }
RestartVelocities == { 12 }

NextMomentum ==
  \/ Subscribe
  \/ Unsubscribe
  \/ \E values \in { SmallRow(1) } : AppendRow(values, clock)
  \/ \E f \in BOOLEAN : SetFrozen(f)
  \/ StopMomentum
  \/ \E v \in MomentumVelocities : StartMomentum(v)
  \/ \E f \in frames, dt \in FrameGaps : MomentumStep(f, dt)
  \/ \E f \in frames, dt \in FrameGaps : MomentumStepStopping(f, dt)
  \/ \E f \in frames, dt \in FrameGaps, v \in RestartVelocities : MomentumStepRestarting(f, dt, v)

SpecMomentum == Init /\ [][NextMomentum]_vars

\* One momentum run at a time: startMomentum is called while Idle and the browser keeps
\* running the pending callback, one frame (17 ms) or a long pause (200 ms) after the
\* last one.
DecayGaps == { 17, 200 }

StartFromIdle(v) ==
  /\ frames = {}
  /\ StartMomentum(v)

RunFrame == \E f \in frames, dt \in DecayGaps : MomentumStep(f, dt)

NextDecay ==
  \/ \E values \in PlainRows : AppendRow(values, clock)
  \/ \E f \in BOOLEAN : SetFrozen(f)
  \/ \E v \in MomentumVelocities : StartFromIdle(v)
  \/ RunFrame

\* requestAnimationFrame runs every callback it was handed and that was not cancelled.
SpecDecay == Init /\ [][NextDecay]_vars /\ WF_vars(RunFrame)

\* The calls that change the store, made while observers subscribe and unsubscribe.
\* handleWheel is zoomByFactor with the factor it computes.
NextNotify ==
  \/ Subscribe
  \/ Unsubscribe
  \/ \E names \in NameLists : SetSeries(names)
  \/ \E values \in PlainRows \cup {<<>>} : AppendRow(values, clock)
  \/ \E c \in Capacities : SetCapacity(c)
  \/ \E size \in Sizes : SetViewPortSize(size)
  \/ \E position \in WholePositions : SetViewPortCursor(position)
  \/ \E delta \in Deltas : AdjustViewPortCursor(delta)
  \/ \E f \in BOOLEAN : SetFrozen(f)
  \/ \E f \in ZoomFactors : ZoomByFactor(f)
  \/ StopMomentum
  \/ \E v \in Velocities : StartMomentum(v)

SpecNotify == Init /\ [][NextNotify]_vars

\* Appends of rows of every arity, the empty row among them, to a store whose observers
\* subscribed before the first sample, with the calls that freeze, move and size the viewport.
NextEmpty ==
  \/ writeIndex = 0 /\ Subscribe
  \/ \E values \in Rows \cup {<<>>} : AppendRow(values, clock)
  \/ \E size \in Sizes : SetViewPortSize(size)
  \/ \E position \in WholePositions : SetViewPortCursor(position)
  \/ \E f \in BOOLEAN : SetFrozen(f)

SpecEmpty == Init /\ [][NextEmpty]_vars

\* Appends at advancing times, with the operations that resize or reset the store.
Clocks == 1..MaxClock

NextTime ==
  \/ \E values \in { <<>>, SmallRow(1) }, now \in Clocks : AppendRow(values, now)
  \/ \E c \in Capacities : SetCapacity(c)
  \/ \E names \in NameLists : SetSeries(names)
  \/ \E cap \in Capacities, size \in 1..MaxInitView, names \in NameLists : Reset(cap, size, names)

SpecTime == Init /\ [][NextTime]_vars

\* The scroll-offset store: construction, appends, the viewport setters and the two
\* window queries.  The sample appended as number t (total index t - 1) has value t.
ScrollCapacities == 0..MaxCap
WindowStarts == 0..MaxCap
WindowLengths == 0..(MaxCap + 1)
ScrollPositions == (0 - MaxCap)..MaxCap

\* new RingStore(cap, 1)
NewRingStore(cap) ==
  /\ snapshot' = NewSnapshot(cap, 1)
  /\ window' = NoWindow
  /\ UNCHANGED <<cursorVars, clock, interaction>>

\* append(values) of the scroll-offset store
ScrollAppend(values, now) ==
  /\ snapshot.total < MaxAppends
  /\ IF Len(values) # Len(snapshot.buffers)
     THEN UNCHANGED snapshot
     ELSE LET idx == snapshot.writeIndex
          IN snapshot' =
               [snapshot EXCEPT
                  !.buffers = [k \in 1..Len(values) |-> SetAt(snapshot.buffers[k], idx, Fround(values[k]))],
                  !.times = SetAt(snapshot.times, idx, now),
                  !.writeIndex = JsMod(IF idx = NaN THEN NaN ELSE idx + 1, snapshot.capacity),
                  !.length = Min(snapshot.length + 1, snapshot.capacity),
                  !.total = snapshot.total + 1,
                  !.anchors = TrimAnchors(PushAnchor(snapshot.anchors, snapshot.total,
                                                     snapshot.anchorEverySamples, now),
                                          Max(0, snapshot.total + 1 - snapshot.capacity))]
  /\ UNCHANGED <<cursorVars, clock, interaction, window>>

\* setWindowSize(size) on the snapshot s: the snapshot it leaves.
WindowSized(s, size) ==
  LET clampedSize == Max(1, Min(size, Max(1, s.length)))
      sized == [s EXCEPT !.windowSize = clampedSize]
      scrolled == [sized EXCEPT !.scrollPosition = ClampScroll(sized.scrollPosition, ScrollBoundsOf(sized)),
                                !.anchorEverySamples = AnchorStride(clampedSize)]
  IN [scrolled EXCEPT !.anchors = RecomputeAnchors(scrolled)]

\* setWindowSize(size)
SetWindowSize(size) ==
  /\ snapshot' = WindowSized(snapshot, size)
  /\ UNCHANGED <<cursorVars, clock, interaction, window>>

\* setSeries(names) of the scroll-offset store, with seriesCount names
ScrollSetSeries(seriesCount) ==
  /\ snapshot' = [snapshot EXCEPT
                    !.buffers = [k \in 1..seriesCount |-> Fill(snapshot.capacity, 0)],
                    !.times = Fill(snapshot.capacity, 0),
                    !.length = 0,
                    !.writeIndex = 0,
                    !.total = 0,
                    !.anchors = <<>>,
                    !.scrollPosition = 0,
                    !.frozen = FALSE,
                    !.freezeBaseTotal = 0]
  /\ UNCHANGED <<cursorVars, clock, interaction, window>>

\* setMaxHistory: the ring slot of the i-th (from 0) of the copyLen latest samples.
RecentSlot(s, copyLen, i) ==
  IF s.length = s.capacity
  THEN (s.writeIndex + s.length - copyLen + i) % s.capacity
  ELSE Max(0, s.length - copyLen) + i

\* setMaxHistory: a new array of cap slots with the copyLen latest samples of src first.
CopyRecent(s, src, cap, copyLen) ==
  [j \in 1..cap |-> IF j <= copyLen THEN src[RecentSlot(s, copyLen, j - 1) + 1] ELSE 0]

\* setMaxHistory(capacity)
SetMaxHistory(cap) ==
  /\ IF cap = snapshot.capacity
     THEN UNCHANGED snapshot
     ELSE LET s == snapshot
              copyLen == Min(cap, s.length)
              keepFromTotal == Max(0, (s.total - 1) - copyLen + 1)
              resized == [s EXCEPT
                            !.capacity = cap,
                            !.buffers = [k \in 1..Len(s.buffers) |-> CopyRecent(s, s.buffers[k], cap, copyLen)],
                            !.times = CopyRecent(s, s.times, cap, copyLen),
                            !.length = copyLen,
                            !.writeIndex = IF copyLen < cap THEN copyLen ELSE 0,
                            !.anchors = TrimAnchors(s.anchors, keepFromTotal)]
          IN snapshot' = WindowSized(resized, s.windowSize)
  /\ UNCHANGED <<cursorVars, clock, interaction, window>>

\* setAnchorEveryFromWindow(windowLength)
SetAnchorEveryFromWindow(windowLength) ==
  /\ snapshot' = LET strided == [snapshot EXCEPT !.anchorEverySamples = AnchorStride(windowLength)]
                 IN [strided EXCEPT !.anchors = RecomputeAnchors(strided)]
  /\ UNCHANGED <<cursorVars, clock, interaction, window>>

\* zoomByFactor(factor) of the scroll-offset store, factor = f[1] / f[2]
ScrollZoomByFactor(f) ==
  LET s == snapshot
      currentLen == s.windowSize
      newWindowSize == ZoomSize(currentLen, f, s.length)
      delta == IF s.frozen THEN Max(0, s.total - s.freezeBaseTotal) ELSE 0
      centerFromNewest == CalculateDataPosition(s.scrollPosition, delta, s.frozen) + (currentLen \div 2)
      sized == [s EXCEPT !.windowSize = newWindowSize,
                         !.anchorEverySamples = AnchorStride(newWindowSize)]
      anchored == [sized EXCEPT !.anchors = RecomputeAnchors(sized)]
      newStartFromNewest == Max(0, centerFromNewest - (newWindowSize \div 2))
      newUiStart == newStartFromNewest - (IF s.frozen THEN delta ELSE 0)
  IN /\ snapshot' = [anchored EXCEPT !.scrollPosition = ClampScroll(newUiStart, ScrollBoundsOf(anchored))]
     /\ UNCHANGED <<cursorVars, clock, interaction, window>>

\* setScrollPosition(position)
SetScrollPosition(position) ==
  /\ snapshot' = [snapshot EXCEPT !.scrollPosition = ClampScroll(position, ScrollBoundsOf(snapshot))]
  /\ UNCHANGED <<cursorVars, clock, interaction, window>>

\* setFrozen(frozen) of the scroll-offset store
ScrollSetFrozenRecapture(f) ==
  LET based == IF f THEN [snapshot EXCEPT !.freezeBaseTotal = snapshot.total] ELSE snapshot
      set == [based EXCEPT !.frozen = f]
  IN /\ snapshot' = IF ~f
                    THEN [set EXCEPT !.scrollPosition = ClampScroll(set.scrollPosition, ScrollBoundsOf(set))]
                    ELSE set
     /\ UNCHANGED <<cursorVars, clock, interaction, window>>
ScrollSetFrozen(f) ==
  LET based == IF f /\ ~snapshot.frozen
               THEN [snapshot EXCEPT !.freezeBaseTotal = snapshot.total] ELSE snapshot
      set == [based EXCEPT !.frozen = f]
  IN /\ snapshot' = IF ~f
                    THEN [set EXCEPT !.scrollPosition = ClampScroll(set.scrollPosition, ScrollBoundsOf(set))]
                    ELSE set
     /\ UNCHANGED <<cursorVars, clock, interaction, window>>

\* getWindow({startFromNewest, length})
GetWindow(specStart, specLength) ==
  /\ window' = GetWindowResult(snapshot, specStart, specLength)
  /\ UNCHANGED <<cursorVars, clock, interaction, snapshot>>

\* getCurrentWindow()
GetCurrentWindow ==
  /\ window' = GetCurrentWindowResult(snapshot)
  /\ UNCHANGED <<cursorVars, clock, interaction, snapshot>>

NextWindow ==
  \/ \E cap \in ScrollCapacities : NewRingStore(cap)
  \/ ScrollAppend(<<snapshot.total + 1>>, clock)
  \/ \E size \in WindowLengths : SetWindowSize(size)
  \/ \E position \in ScrollPositions : SetScrollPosition(position)
  \/ \E f \in BOOLEAN : ScrollSetFrozen(f)
  \/ \E specStart \in WindowStarts, specLength \in WindowLengths : GetWindow(specStart, specLength)
  \/ GetCurrentWindow

SpecWindow == Init /\ [][NextWindow]_vars

\* Every operation of the scroll-offset store that changes the snapshot: rows of the
\* store's arity and of another one, resets, resizes, the viewport setters and zooms.
ScrollFactors == { <<1, 2>>, <<2, 1>> }
AnchorWindows == { 1, 10 }
ScrollRow(n) == [i \in 1..n |-> snapshot.total + 1]

NextScroll ==
  \/ \E cap \in ScrollCapacities : NewRingStore(cap)
  \/ \E n \in 1..MaxChannels : ScrollAppend(ScrollRow(n), clock)
  \/ \E n \in 1..MaxChannels : ScrollSetSeries(n)
  \/ \E cap \in ScrollCapacities : SetMaxHistory(cap)
  \/ \E size \in WindowLengths : SetWindowSize(size)
  \/ \E position \in ScrollPositions : SetScrollPosition(position)
  \/ \E f \in BOOLEAN : ScrollSetFrozen(f)
  \/ \E f \in ScrollFactors : ScrollZoomByFactor(f)
  \/ \E windowLength \in AnchorWindows : SetAnchorEveryFromWindow(windowLength)

SpecScroll == Init /\ [][NextScroll]_vars

\* The operations that decide how many channels there are and what they hold:
\* setSeries, append with rows of every arity, and setCapacity.
NextArity ==
  \/ \E names \in NameLists : SetSeries(names)
  \/ \E values \in Rows \cup {<<>>} : AppendRow(values, clock)
  \/ \E c \in Capacities : SetCapacity(c)

SpecArity == Init /\ [][NextArity]_vars

\* The pointers of the canvas: ids, buttons, pixel distances and samples per pixel.
PointerIds == { 1, 2, 3 }
Buttons == { 0, 2 }
DeltaXs == { -3, -1, 1, 2 }
SamplesPerPixels == { 0, 400, 1500 }
interactionRest == <<cursorVars, clock, snapshot, window>>

\* onPointerDown(e): a pointer that is not down goes down on the canvas.
PointerDown(id, button) ==
  /\ id \notin interaction.down
  /\ interaction.drags < MaxDrags
  /\ interaction.panStarts <= MaxDrags
  /\ LET st == [interaction EXCEPT !.down = interaction.down \cup {id},
                                   !.pointers = interaction.pointers \cup {id}]
     IN interaction' =
          IF Cardinality(st.pointers) = 2
          THEN [st EXCEPT !.isPinching = TRUE, !.panStarts = st.panStarts + 1]
          ELSE IF Cardinality(st.pointers) = 1 /\ button = 0
          THEN [st EXCEPT !.isDragging = TRUE, !.accumSamples = 0, !.attached = TRUE,
                          !.panStarts = st.panStarts + 1, !.drags = st.drags + 1,
                          !.steps = <<>>, !.moved = 0, !.calls = 0]
          ELSE st
  /\ UNCHANGED interactionRest

\* onPointerMove(e) / onMouseMove(e) of a drag: handlePanDelta(deltaX, ...).
PointerMove(deltaX, samplesPerPixel) ==
  /\ interaction.attached
  /\ interaction.isDragging
  /\ ~(interaction.isPinching /\ Cardinality(interaction.pointers) >= 2)
  /\ interaction.calls < MaxPanCalls
  /\ interaction' =
       LET st == PanDelta(interaction, deltaX, samplesPerPixel)
       IN [st EXCEPT !.moved = st.moved + deltaX * samplesPerPixel, !.calls = st.calls + 1]
  /\ UNCHANGED interactionRest

\* pointerup: the pointer id goes up; the canvas listener runs, and the window
\* listener after it unless it was removed meanwhile.
PointerUp(id) ==
  /\ id \in interaction.down
  /\ LET lifted == [interaction EXCEPT !.down = interaction.down \ {id}]
         onCanvas == IF lifted.attached THEN EndInteraction(lifted) ELSE lifted
         onWindow == IF onCanvas.attached THEN EndInteraction(onCanvas) ELSE onCanvas
     IN interaction' = onWindow
  /\ UNCHANGED interactionRest

\* pointercancel, mouseup, window blur and lostpointercapture: endInteraction runs
\* while its listener is attached; the pointers stay as they are.
TerminatingEvent ==
  /\ interaction.attached
  /\ interaction' = EndInteraction(interaction)
  /\ UNCHANGED interactionRest

\* Drags with up to three pointers and every terminating event; the moves are all alike.
NextInteraction ==
  \/ \E id \in PointerIds, button \in Buttons : PointerDown(id, button)
  \/ PointerMove(2, 400)
  \/ \E id \in PointerIds : PointerUp(id)
  \/ TerminatingEvent

SpecInteraction == Init /\ [][NextInteraction]_vars

\* Drags of one pointer, moved by every distance at every scale.
NextPan ==
  \/ \E button \in Buttons : PointerDown(1, button)
  \/ \E deltaX \in DeltaXs, samplesPerPixel \in SamplesPerPixels : PointerMove(deltaX, samplesPerPixel)
  \/ PointerUp(1)
  \/ TerminatingEvent

SpecPan == Init /\ [][NextPan]_vars

\* append and setCapacity alone, with one capacity more than the other specifications
\* have, so that a resize after the ring has wrapped copies more than one sample.
ResizeCapacities == 0..(MaxCap + 1)

NextResize ==
  \/ \E values \in Rows : AppendRow(values, clock)
  \/ \E c \in ResizeCapacities : SetCapacity(c)

SpecResize == Init /\ [][NextResize]_vars

\* Resizes of a viewport that may be frozen and scrolled back: one channel, rows of
\* different values, capacities up to MaxCap + 1.
NextFrozenResize ==
  \/ \E values \in { SmallRow(1), BigRow(1) } : AppendRow(values, clock)
  \/ \E c \in ResizeCapacities : SetCapacity(c)
  \/ \E position \in WholePositions : SetViewPortCursor(position)
  \/ \E f \in BOOLEAN : SetFrozen(f)

SpecFrozenResize == Init /\ [][NextFrozenResize]_vars

\* The viewport operations on a store large enough for the size to move between the
\* minimum and the capacity: one channel, the same value in every row.
ZoomCapacities == { MaxZoomCap }
ZoomSizes == { 1, MinViewPortSize + 1, MaxZoomCap, 50 }
ZoomPositions == { 0, 6000, 50000 }
\* Factors below 0.5, within [0.5, 2] and above 2; 0, a negative one and both infinities.
ZoomInputs == ZoomFactors \cup { <<0, 1>>, <<-1, 1>>, <<1, 0>>, <<-1, 0>> }

\* append([1]), while fewer than MaxZoomAppends samples were written.
AppendSample ==
  /\ writeIndex < MaxZoomAppends
  /\ AppendValues(SmallRow(1), clock)

NextZoom ==
  \/ \E c \in ZoomCapacities : SetCapacity(c)
  \/ AppendSample
  \/ \E size \in ZoomSizes : SetViewPortSize(size)
  \/ \E f \in ZoomInputs : ZoomByFactor(f)
  \/ \E position \in ZoomPositions : SetViewPortCursor(position)
  \/ \E f \in BOOLEAN : SetFrozen(f)

SpecZoom == Init /\ [][NextZoom]_vars


-----------------------------------------------------------------------------
(* Properties *)

\* The number of ring slots that hold a sample.
RetainedSlots == Cardinality({ j \in 1..capacity : times[j] # NaN })

NewestWindow ==
  /\ ~frozen
  /\ writeIndex > 0
  /\ viewPortCursor = writeIndex - 1
  /\ viewPortSize >= 1
  /\ viewPortSize <= Len(hist)

\* The value given to append for channel k of the i-th sample of the newest n.
GivenNewest(k, n, i) == hist[Len(hist) - n + i][k]

\* C2 as stated: for an unfrozen store a window on the newest L <= retained samples
\* returns, for every channel, exactly the last L appended values, oldest first.
C2_NewestWindowExact ==
  NewestWindow =>
    LET d == ViewPortDataResult.data
    IN /\ Len(d) = Len(series)
       /\ \A k \in 1..Len(d) :
            d[k] = [i \in 1..viewPortSize |-> GivenNewest(k, viewPortSize, i)]

\* C2 as amended: the window returns, for every channel, the last L appended values
\* rounded to Float32, oldest first.
C2_NewestWindowStored ==
  NewestWindow =>
    LET d == ViewPortDataResult.data
    IN /\ Len(d) = Len(series)
       /\ \A k \in 1..Len(d) :
            d[k] = [i \in 1..viewPortSize |-> Fround(GivenNewest(k, viewPortSize, i))]

C2_Witness ==
  /\ NewestWindow
  /\ capacity = 2
  /\ viewPortSize = 2
  /\ writeIndex >= 2 * capacity
  /\ Len(series) = 2
  /\ ViewPortDataResult.data[1] = <<F32Exact, 1>>

\* The sample with total index idx is retained.
Retained(idx) == idx >= 0 /\ idx < writeIndex /\ idx >= writeIndex - capacity

\* The stored form of the value given for channel k at total index idx, NaN when the
\* index is not retained.
StoredAt(k, idx) ==
  IF Retained(idx) /\ writeIndex - idx <= Len(hist)
  THEN Fround(hist[Len(hist) - (writeIndex - 1 - idx)][k])
  ELSE NaN

\* C3 (stated for capacity >= 1, on the values as stored): for cursor c and size n, slot i (0 <= i < n) of every channel holds the sample of
\* total index c-n+1+i when that index is retained and NaN otherwise, so the sample at
\* the cursor is in the last slot.
C3_SlotsByTotalIndex ==
  capacity >= 1 =>
    LET d == ViewPortDataResult.data
        n == viewPortSize
    IN \A k \in 1..Len(series) :
         /\ Len(d[k]) = n
         /\ \A i \in 0..(n - 1) : d[k][i + 1] = StoredAt(k, viewPortCursor - n + 1 + i)

\* C4 (stated for capacity >= 1): every per-channel array and the timestamp array of the snapshot has exactly
\* getViewPortSize() entries.
C4_LengthIsViewPortSize ==
  capacity >= 1 =>
    LET r == ViewPortDataResult
    IN /\ Len(r.times) = viewPortSize
       /\ \A k \in 1..Len(r.data) : Len(r.data[k]) = viewPortSize

\* C5: while the viewport is frozen an append call, of any arity, leaves the cursor and
\* the viewport size unchanged.
C5_FrozenAppendKeepsViewport ==
  [][ \A values \in PlainRows \cup {<<>>} :
        (frozen /\ AppendRow(values, clock)) => UNCHANGED <<viewPortCursor, viewPortSize>> ]_vars

\* Only an append made while not frozen leaves the cursor at or above the capacity, and
\* only appends made while frozen then move writeIndex away from it: here the last
\* append was made frozen and changed the arity from 1 to 2.
C5_Witness ==
  /\ frozen
  /\ capacity = 2
  /\ viewPortCursor = 2
  /\ writeIndex = 4
  /\ hist = << <<1, NaN>>, <<1, 2>> >>

\* C6 (stated for capacity >= 1): setFrozen(false) leaves the viewport unfrozen with the cursor on the newest
\* sample, total-1.
C6_UnfreezeJumpsToNewest ==
  [][ (capacity >= 1 /\ SetFrozen(FALSE)) =>
        (~frozen' /\ (writeIndex > 0 => viewPortCursor' = writeIndex - 1)) ]_vars

\* C7: after every non-empty append made while not frozen, cursor == total-1.
C7_AppendFollows ==
  [][ \A values \in PlainRows :
        (~frozen /\ AppendRow(values, clock)) => viewPortCursor' = writeIndex' - 1 ]_vars

\* The ring has wrapped and the cursor is above capacity-1, where only append puts it.
C7_Witness ==
  /\ ~frozen
  /\ capacity > 0
  /\ writeIndex > capacity + 1
  /\ viewPortCursor = writeIndex - 1

\* C8 (stated for capacity >= 1): setViewPortCursor(pos) sets the cursor to round(pos) clamped into [0, total-1]
\* (0 when total == 0).
C8_CursorClampedToTotal ==
  [][ \A position \in Positions :
        (capacity >= 1 /\ SetViewPortCursor(position)) =>
          viewPortCursor' = Min(Max(0, RoundPosition(position)), Max(0, writeIndex - 1)) ]_vars

RetainedFinite == StoredFinite(buffers, Len(buffers), capacity)

\* C10: every finite value retained in a channel buffer lies in [globalMin, globalMax].
C10_RetainedWithinGlobalRange ==
  \A v \in RetainedFinite : globalMin <= v /\ v <= globalMax

\* The finite values of the snapshot getViewPortData() returns in the current state.
WindowFinite ==
  LET d == ViewPortDataResult.data
  IN { d[k][i] : k \in DOMAIN d, i \in 1..(IF DOMAIN d = {} THEN 0 ELSE Len(d[1])) }
       \ { NaN, PosInf, NegInf }

\* C11: every snapshot has yMin < yMax and every finite value of the window lies in
\* [yMin, yMax]; without a finite value the range is [-1, 1]; when all finite values
\* equal v it is [v - p, v + p] with p = max(1, 0.1 * |v|).  The range is in tenths.
C11_YRange ==
  LET r == ViewPortDataResult
      F == WindowFinite
  IN /\ r.yMin < r.yMax
     /\ \A v \in F : r.yMin <= v * YScale /\ v * YScale <= r.yMax
     /\ F = {} => (r.yMin = -1 * YScale /\ r.yMax = 1 * YScale)
     /\ \A v \in F :
          F = {v} => LET p == Max(1 * YScale, Abs(v))
                     IN r.yMin = v * YScale - p /\ r.yMax = v * YScale + p

\* A window whose only finite value is large enough for the 10% padding to exceed 1.
C11_Witness ==
  /\ WindowFinite = {F32Exact}
  /\ writeIndex > capacity
  /\ ViewPortDataResult.yMax = F32Exact * YScale + F32Exact

\* The retained samples read from the ring, oldest first: one row per sample.
RetainedRows ==
  LET n == Min(writeIndex, capacity)
  IN [r \in 1..n |->
        [k \in 1..Len(buffers) |-> buffers[k][((writeIndex - n + r - 1) % capacity) + 1]]]

\* The reference list (hist) as Float32 samples.
ReferenceRows == [r \in 1..Len(hist) |-> [k \in 1..Len(hist[r]) |-> Fround(hist[r][k])]]

\* C12: under any interleaving of append and setCapacity the retained samples, read
\* oldest to newest, equal the reference list kept by: append v -> the last
\* min(capacity, len+1) elements of list+[v]; setCapacity(c) -> the last min(len, c)
\* elements.  Samples are compared as the Float32 values the store holds.
C12_RetainedIsReference == RetainedRows = ReferenceRows

\* A store resized while it held samples, then appended to until the ring wrapped again.
C12_Witness ==
  /\ appended = Unknown
  /\ capacity = 2
  /\ writeIndex = 3
  /\ hist = << <<BigOdd>>, <<1>> >>

\* A step of setCapacity that changes the capacity.
Resized == capacity' # capacity

\* C13 as stated (for capacities >= 1): total never decreases under append,
\* setCapacity, viewport, zoom, freeze or momentum operations; only setSeries resets it.
C13_TotalNeverDecreases ==
  [][ (capacity >= 1 /\ capacity' >= 1) =>
        ((\E names \in NameLists : SetSeries(names)) \/ writeIndex' >= writeIndex) ]_vars

\* C13 as amended: total never decreases under append, viewport, zoom, freeze or
\* momentum operations; a setCapacity that changes the capacity sets it to the number
\* of samples kept, min(retained, new capacity); only setSeries resets it to 0.
C13_TotalRebasedByResize ==
  [][ /\ Resized => writeIndex' = Min(Min(writeIndex, capacity), capacity')
      /\ ~Resized => ((\E names \in NameLists : SetSeries(names)) \/ writeIndex' >= writeIndex)
    ]_vars

\* A store that held samples when it was resized and whose total is 0 again without
\* a setSeries: a resize has lowered the total.
C13_Witness ==
  /\ appended = Unknown
  /\ writeIndex = 0
  /\ capacity > 0

C15_SetSeriesResets ==
  [][ \A names \in NameLists :
        SetSeries(names) =>
          /\ Len(series') = Len(names)
          /\ \A i \in 1..Len(names) : series'[i].name = names[i]
          /\ Len(buffers') = Len(names)
          /\ writeIndex' = 0
          /\ viewPortCursor' = 0
          /\ frozen' = FALSE
          /\ globalMin' = PosInf /\ globalMax' = NegInf
          /\ firstTimestamp' = TimeNull
          /\ \A k \in 1..Len(names), j \in 1..capacity : buffers'[k][j] = NaN
          /\ \A j \in 1..capacity : times'[j] = NaN
          /\ capacity' = capacity
          /\ viewPortSize' = viewPortSize
          /\ LET result == ViewPortDataResult'
             IN /\ \A k \in DOMAIN result.data : \A i \in DOMAIN result.data[k] :
                     result.data[k][i] \in { NaN, PosInf, NegInf }
                /\ result.yMin = -1 * YScale
                /\ result.yMax = 1 * YScale
                /\ result.series = series' ]_vars

\* The store after setSeries(["A"]) (nothing else names a series "A"), with a viewport
\* size that setViewPortSize has set.
C15_Witness ==
  /\ writeIndex = 0
  /\ Len(series) = 1
  /\ series[1].name = "A"
  /\ capacity = 2
  /\ viewPortSize = MinViewPortSize
  /\ buffers = << <<NaN, NaN>> >>
  /\ globalMin = PosInf

\* C16: two getViewPortData() calls with no mutating call in between return the same
\* snapshot: the call that computes a snapshot stores it, returns it, and leaves the
\* store in a state where the next call is served that stored snapshot.
C16_SecondCallSameSnapshot ==
  [][ GetViewPortData =>
        /\ CacheHit'
        /\ cachedViewPortData'[1].data = ComputeViewPortData
        /\ ViewPortDataResult' = ComputeViewPortData ]_vars

\* A snapshot of a frozen window on a wrapped ring is held and served.
C16_Witness ==
  /\ CacheHit
  /\ frozen
  /\ writeIndex > capacity
  /\ WindowFinite # {}

\* C17: after any sequence of operations getViewPortData() returns what an uncached
\* recomputation from the current state gives: series list, data, timestamps and
\* y-range.
C17_SnapshotNeverStale ==
  LET got == ViewPortDataResult
      fresh == ComputeViewPortData
  IN /\ got.series = fresh.series
     /\ got.data = fresh.data
     /\ got.times = fresh.times
     /\ got.yMin = fresh.yMin
     /\ got.yMax = fresh.yMax

\* The number of samples the ring retains.
RetainedLength == Min(writeIndex, capacity)

\* C18 (as stated): setSize(n) leaves the viewport size equal to n clamped into
\* [10, min(capacity, retainedLength)], taken where that interval is not empty.
C18_SizeClampedToRetained ==
  [][ \A n \in ZoomSizes :
        (SetViewPortSize(n) /\ RetainedLength >= MinViewPortSize) =>
          viewPortSize' = Max(MinViewPortSize, Min(n, Min(capacity, RetainedLength))) ]_vars

\* C18 (amended): setSize(n) leaves the viewport size equal to n clamped into
\* [10, capacity], whatever the retained length: 10 for n below 10, n itself between 10
\* and the capacity, the capacity for n above it, and 10 when the capacity is below 10.
C18_SizeClampedToCapacity ==
  [][ \A n \in ZoomSizes :
        SetViewPortSize(n) =>
          /\ viewPortSize' >= MinViewPortSize
          /\ (n <= MinViewPortSize \/ capacity < MinViewPortSize) => viewPortSize' = MinViewPortSize
          /\ (MinViewPortSize <= n /\ n <= capacity) => viewPortSize' = n
          /\ (n > capacity /\ capacity >= MinViewPortSize) => viewPortSize' = capacity ]_vars

\* A size above the retained length, below the capacity and above the minimum was set.
C18_Witness ==
  /\ capacity = MaxZoomCap
  /\ RetainedLength = MinViewPortSize
  /\ viewPortSize = MinViewPortSize + 1

\* The factor zoomByFactor divides by: f clamped into [0.5, 2], as a fraction.
ClampedFactor(f) ==
  IF 2 * f[1] < f[2] THEN <<1, 2>> ELSE IF f[1] > 2 * f[2] THEN <<2, 1>> ELSE f

\* d is size / factor rounded to the nearest integer, halves upwards.
IsRounded(d, size, factor) ==
  /\ 2 * d * factor[1] - factor[1] <= 2 * size * factor[2]
  /\ 2 * size * factor[2] < 2 * d * factor[1] + factor[1]

Centre2 == 2 * viewPortCursor - (ViewLength - 1)

\* C20: zoomByFactor keeps the total index at the centre of the viewport within one
\* sample, unless the position had to be clamped.  Taken where nothing needs clamping:
\* the window before the zoom lies within the retained samples, and so does the window
\* of the new size around the same centre.
C20_ZoomKeepsCentre ==
  [][ \A f \in ZoomInputs :
        LET oldest == Max(0, writeIndex - capacity)
            cursor2 == Centre2 + (ViewLength' - 1)
        IN ( /\ ZoomByFactor(f)
             /\ ViewStart >= oldest
             /\ viewPortCursor <= writeIndex - 1
             /\ cursor2 - 2 * (ViewLength' - 1) >= 2 * oldest
             /\ cursor2 <= 2 * (writeIndex - 1) )
           => /\ Centre2' - Centre2 <= 2
              /\ Centre2 - Centre2' <= 2 ]_vars

\* Factors within [0.5, 2], each with its inverse.
RoundTripFactors == { <<1, 2>>, <<4, 5>>, <<1, 1>>, <<5, 4>>, <<2, 1>> }
Inverse(f) == <<f[2], f[1]>>

\* Whether the present size is what zoomByFactor(f) leaves of the size s0.
ZoomedFrom(s0, f) ==
  \E d \in 0..(2 * s0 + 1) :
    /\ IsRounded(d, s0, f)
    /\ viewPortSize = Max(MinViewPortSize, Min(d, capacity))

\* As ZoomedFrom, with round(s0 / f) within [10, capacity]: the zoom was not clamped.
ZoomedFromUnclamped(s0, f) ==
  \E d \in MinViewPortSize..capacity :
    /\ IsRounded(d, s0, f)
    /\ viewPortSize = d

C22_SmallVelocityStaysIdle ==
  [][ \A v \in MomentumVelocities :
        (StartMomentum(v) /\ (~IsFinite(v) \/ Abs(v) < VelocityThreshold)) =>
          /\ frames' = {}
          /\ viewPortCursor' = viewPortCursor ]_vars

\* C24: at most one momentum frame callback is pending at any time.
C24_OnePendingCallback == Cardinality(frames) <= 1

\* C25: once stopMomentum() has returned no frame callback is pending, also when it
\* was called by an observer during a frame step.
C25_StopCancels ==
  [][ (StopMomentum \/ \E f \in frames, dt \in FrameGaps : MomentumStepStopping(f, dt))
        => frames' = {} ]_vars

\* Every frame step either finds |velocity| below the threshold and schedules nothing,
\* or schedules one callback with a velocity strictly smaller in magnitude.
C23_StepDecays ==
  [][ \A f \in frames, dt \in DecayGaps :
        MomentumStep(f, dt) =>
          /\ Abs(Decay(f.v, dt)) < VelocityThreshold => frames' = {}
          /\ \A g \in frames' : Abs(g.v) < Abs(f.v) ]_vars

\* C23: after startMomentum(v), as long as scheduled callbacks keep firing, the engine
\* reaches Idle: |velocity| strictly decreases at every step and the step that finds it
\* below 0.005 does not reschedule.
C23_MomentumReachesIdle ==
  /\ C23_StepDecays
  /\ (frames # {}) ~> (frames = {} /\ animationId = NoAnimation)

\* A run started at -0.012 that has decayed to -0.006 and moved the frozen cursor back.
C23_Witness ==
  /\ frozen
  /\ writeIndex = 4
  /\ viewPortCursor = 2
  /\ \E f \in frames : f.v = -6 /\ f.id = animationId

\* A call that changes the samples, the series or the viewport.
StoreCall ==
  \/ \E names \in NameLists : SetSeries(names)
  \/ \E values \in PlainRows : AppendRow(values, clock)
  \/ \E c \in Capacities : c # capacity /\ SetCapacity(c)
  \/ \E size \in Sizes : SetViewPortSize(size)
  \/ \E position \in WholePositions : SetViewPortCursor(position)
  \/ \E delta \in Deltas : AdjustViewPortCursor(delta)
  \/ \E f \in BOOLEAN : SetFrozen(f)
  \/ \E f \in ZoomFactors : ZoomByFactor(f)

MomentumCall ==
  \/ StopMomentum
  \/ \E v \in Velocities : StartMomentum(v)

\* Every call that changes the samples, the series or the viewport calls every
\* subscribed observer at least once.
C26_StoreCallsNotify ==
  [][ StoreCall => notified' >= listeners ]_vars

\* C26: every mutating call (append, setSeries, setCapacity with a changed value,
\* setCursor, adjustCursor, setSize, setFrozen, zoomByFactor, handleWheel, startMomentum,
\* stopMomentum) calls every subscribed observer at least once before it returns.
C26_EveryCallNotifies ==
  [][ (StoreCall \/ MomentumCall) => notified' >= listeners ]_vars

\* With capacity 0 nothing is retained, whatever was appended.
ZeroCapacityStoresNothing ==
  capacity = 0 =>
    /\ RetainedSlots = 0
    /\ times = <<>>
    /\ \A k \in 1..Len(buffers) : buffers[k] = <<>>
    /\ ViewPortDataResult.yMin = -1 * YScale
    /\ ViewPortDataResult.yMax = 1 * YScale

\* C28: with capacity 0 any number of appends leaves the retained length 0 and stores
\* nothing, and the viewport query of size L returns L missing entries per channel and
\* for the timestamps, with y-range [-1, 1].
C28_ZeroCapacityPadded ==
  capacity = 0 =>
    /\ ZeroCapacityStoresNothing
    /\ ViewPortDataResult.times = Fill(viewPortSize, NaN)
    /\ \A k \in 1..Len(ViewPortDataResult.data) :
         ViewPortDataResult.data[k] = Fill(viewPortSize, NaN)

\* A call of setSeries or of reset.
ResetCall ==
  \/ \E names \in NameLists : SetSeries(names)
  \/ \E cap \in Capacities, size \in 1..MaxInitView, names \in NameLists : Reset(cap, size, names)

\* C30: firstTimestamp is null until the first append with values after construction or
\* reset, is set to that append's receipt time, and is then changed by nothing (later
\* appends, ring wraparound, setCapacity) except setSeries and reset, which return it
\* to null.
C30_FirstTimestampCapturedOnce ==
  /\ [](firstTimestamp = TimeNull <=> appended = 0)
  /\ [][ /\ \A values \in { SmallRow(1) }, now \in Clocks :
              (AppendRow(values, now) /\ firstTimestamp = TimeNull) => firstTimestamp' = now
         /\ (firstTimestamp # TimeNull /\ ~ResetCall) => firstTimestamp' = firstTimestamp
         /\ ResetCall => firstTimestamp' = TimeNull ]_vars

\* The first of three samples, received at time 1, has been overwritten in a ring of
\* two; the last was received at time 3.
C30_Witness ==
  /\ firstTimestamp = 1
  /\ capacity = 2
  /\ writeIndex = 3
  /\ times = <<3, 2>>
  /\ clock = 3

\* C27: no window query raises an error in any reachable state, for every start offset
\* >= 0 and length >= 0.
C27_WindowQueryNeverRaises == ~window.raised

\* The value getWindow should show for the sample with total index t: the sample
\* appended as number t + 1 while it is retained, the missing sentinel otherwise.
ExpectedAt(t) ==
  IF t >= snapshot.total - snapshot.length /\ t <= snapshot.total - 1 THEN t + 1 ELSE NaN

\* C29: getWindow({startFromNewest: k, length: n}) returns per-channel and timestamp
\* arrays of exactly n entries (its length field), holding the samples with total
\* indices windowStartTotal .. windowStartTotal + n - 1, windowStartTotal being
\* total - 1 - k - (n - 1), and the missing sentinel where a sample is not retained.
C29_WindowHoldsRequestedSamples ==
  [][ \A k \in WindowStarts, n \in WindowLengths :
        (GetWindow(k, n) /\ ~window'.raised) =>
          /\ window'.length = n
          /\ window'.windowStartTotal = snapshot.total - 1 - k - (n - 1)
          /\ Len(window'.times) = n
          /\ \A c \in 1..Len(window'.data) :
               window'.data[c] = [i \in 1..n |-> ExpectedAt(window'.windowStartTotal + i - 1)] ]_vars

\* What does hold of getWindow: a window that ends at the newest sample
\* (startFromNewest = 0) never raises and holds exactly the samples asked for.
NewestWindowHoldsRequestedSamples ==
  [][ \A n \in WindowLengths :
        GetWindow(0, n) =>
          /\ ~window'.raised
          /\ window'.length = n
          /\ Len(window'.times) = n
          /\ \A c \in 1..Len(window'.data) :
               window'.data[c] = [i \in 1..n |-> ExpectedAt(snapshot.total - n + i - 1)] ]_vars

C32_RangeIsRetainedExtremes ==
  /\ RetainedFinite = {} => (globalMin = PosInf /\ globalMax = NegInf)
  /\ RetainedFinite # {} =>
       /\ globalMin \in RetainedFinite
       /\ globalMax \in RetainedFinite
       /\ \A v \in RetainedFinite : globalMin <= v /\ v <= globalMax

\* The scroll bounds of the claim: [0, max(0, retained - size)] when unfrozen and
\* [-deltaSinceFreeze, max(0, retained - size)] when frozen.
DeltaSinceFreeze == Max(0, snapshot.total - snapshot.freezeBaseTotal)
ScrollMin == IF snapshot.frozen THEN 0 - DeltaSinceFreeze ELSE 0
ScrollMax == Max(0, snapshot.length - snapshot.windowSize)

C34_FreezeBaseCapturedOnce ==
  [][ /\ (~snapshot.frozen /\ snapshot'.frozen) =>
           (snapshot'.freezeBaseTotal = snapshot'.total /\ snapshot'.total = snapshot.total)
      /\ (snapshot.frozen /\ snapshot'.frozen) =>
           /\ snapshot'.freezeBaseTotal = snapshot.freezeBaseTotal
           /\ snapshot'.total \in { snapshot.total, snapshot.total + 1 }
           /\ snapshot'.total - snapshot'.freezeBaseTotal >= 0
           /\ \A n \in 1..MaxChannels :
                (ScrollAppend(ScrollRow(n), clock) /\ n = Len(snapshot.buffers))
                  => snapshot'.total = snapshot.total + 1 ]_vars

\* Frozen after one sample, two more appended since.
C34_Witness ==
  /\ snapshot.frozen
  /\ snapshot.freezeBaseTotal = 1
  /\ snapshot.total = 3

\* The retained total indices that are multiples of the current stride, oldest first.
RetainedStrideTotals ==
  LET first == snapshot.total - snapshot.length
      all == [p \in 1..snapshot.length |-> first + p - 1]
  IN SelectSeq(all, LAMBDA t : t % snapshot.anchorEverySamples = 0)

\* C35: after any sequence of append, setWindowSize / zoomByFactor /
\* setAnchorEveryFromWindow (stride changes), setMaxHistory and setSeries, the anchor
\* list is exactly the increasing list of the retained total indices t
\* (total - retained <= t <= total - 1) that are multiples of the current stride.
C35_AnchorsAreRetainedMultiples ==
  [t \in 1..Len(snapshot.anchors) |-> snapshot.anchors[t].total] = RetainedStrideTotals

\* A full ring of two that has wrapped, with stride 1: the anchors of samples 1 and 2
\* are kept and the anchor of sample 0 was pruned.
C35_Witness ==
  /\ snapshot.capacity = 2
  /\ snapshot.total = 3
  /\ snapshot.anchorEverySamples = 1
  /\ Len(snapshot.anchors) = 2
  /\ snapshot.anchors[1].total = 1

\* C36: the anchors returned with a window are exactly the stored anchors whose total
\* lies inside that window, in [windowStartTotal, windowStartTotal + length - 1], for
\* every scroll offset.
C36_WindowAnchorsInsideWindow ==
  [][ \A k \in WindowStarts, n \in WindowLengths :
        (GetWindow(k, n) /\ ~window'.raised) =>
          window'.anchors =
            SelectSeq(snapshot.anchors,
                      LAMBDA a : /\ a.total >= window'.windowStartTotal
                                 /\ a.total <= window'.windowStartTotal + window'.length - 1) ]_vars

\* What does hold: the anchors returned are the stored anchors from the window's first
\* sample up to the newest sample, which is the window's last sample when the window
\* ends at the newest sample.
WindowAnchorsUpToNewest ==
  [][ \A k \in WindowStarts, n \in WindowLengths :
        (GetWindow(k, n) /\ ~window'.raised) =>
          window'.anchors =
            SelectSeq(snapshot.anchors,
                      LAMBDA a : /\ a.total >= window'.windowStartTotal
                                 /\ a.total <= window'.windowStartTotal + window'.length - 1 + k) ]_vars

\* C37: a setCapacity call made while the viewport is frozen leaves the viewport on the
\* same samples: counting the slots from the cursor's end of the window, each slot that
\* showed a sample still retained after the resize shows the same value after it.
\* writeIndex' is the number of samples the resize keeps, the latest ones.
C37_FrozenResizeKeepsSamples ==
  [][ \A c \in ResizeCapacities :
        (frozen /\ SetCapacity(c)) =>
          LET before == ViewPortDataResult.data
              after == ViewPortDataResult'.data
              lenBefore == Len(ViewPortDataResult.times)
              lenAfter == Len(ViewPortDataResult'.times)
          IN \A j \in 0..(Min(lenBefore, lenAfter) - 1) :
               LET t == viewPortCursor - j
               IN (t >= 0 /\ t >= writeIndex - capacity /\ t >= writeIndex - writeIndex'
                   /\ t <= writeIndex - 1)
                    => \A k \in 1..Len(series) :
                         after[k][lenAfter - j] = before[k][lenBefore - j] ]_vars

\* C38: in every reachable state the viewport size never exceeds the capacity, after
\* construction, setViewPortSize, zoomByFactor and setCapacity alike.
C38_SizeWithinCapacity == viewPortSize <= capacity

\* What does hold: a setCapacity call that changes the capacity leaves a size within
\* it, and the arrays of a snapshot never have more entries than the capacity.
ResizeClampsSize ==
  /\ [][ \A c \in Capacities :
            (c # capacity /\ SetCapacity(c)) => viewPortSize' <= capacity' ]_vars
  /\ [](Len(ViewPortDataResult.times) <= capacity)

RECURSIVE SumSeq(_)
SumSeq(q) == IF q = <<>> THEN 0 ELSE q[1] + SumSeq(Tail(q))

\* C39: handlePanDelta conserves pan distance: after every call the accumulator
\* satisfies |accumSamples| < 1, every emitted step is a non-zero integer, and the sum
\* of the emitted steps plus the accumulator equals the sum of deltaX * samplesPerPixel
\* over all calls since the drag began.
C39_PanDistanceConserved ==
  /\ Abs(interaction.accumSamples) < PanScale
  /\ \A i \in 1..Len(interaction.steps) :
       interaction.steps[i] # 0 /\ interaction.steps[i] % PanScale = 0
  /\ SumSeq(interaction.steps) + interaction.accumSamples = interaction.moved

\* A drag that has emitted a step in each direction and holds a fraction of a sample.
C39_Witness ==
  /\ interaction.isDragging
  /\ \E i, j \in 1..Len(interaction.steps) : interaction.steps[i] < 0 /\ interaction.steps[j] > 0
  /\ interaction.accumSamples < 0

\* C40: for each single-pointer drag started by a primary-button pointerdown, onPanEnd
\* is invoked exactly once when the drag ends, whichever and however many terminating
\* events fire, and never without a preceding onPanStart: onPanEnd was called once for
\* every drag that has ended, a terminating event that reaches a drag ends it with one
\* call, one that reaches none makes no call, and no other step calls onPanEnd.
C40_PanEndOncePerDrag ==
  /\ [](interaction.panEnds = interaction.drags - (IF interaction.isDragging THEN 1 ELSE 0))
  /\ [](interaction.panEnds <= interaction.panStarts)
  /\ [][ /\ ((TerminatingEvent \/ \E id \in PointerIds : PointerUp(id))
              /\ interaction.isDragging /\ interaction.attached)
               => (interaction'.panEnds = interaction.panEnds + 1 /\ ~interaction'.isDragging)
         /\ interaction'.panEnds # interaction.panEnds
               => (interaction.isDragging /\ ~interaction'.isDragging) ]_vars

\* The second drag has ended; during the first one a second pointer went down.
C40_Witness ==
  /\ interaction.drags = 2
  /\ interaction.panEnds = 2
  /\ interaction.panStarts = 3
  /\ ~interaction.isDragging

====
